---- MODULE Spec2Model ----
(***************************************************************************)
(* Model of engine/api/application/application_variable.go: the variable   *)
(* store of an application (insert, update, delete, list, load) and its    *)
(* audit trail (CreateAudit, GetAudit, GetVariableAudit), over the tables  *)
(* application_variable, application_variable_audit and application.       *)
(***************************************************************************)
EXTENDS Integers, Sequences, FiniteSets, TLC

\* ------------------------------------------------------------------ bounds
\* Number of calls that commit a change after the initial state; each is
\* stamped with its own time.
MaxClock == 2

\* ------------------------------------------------------------------ values
\* SQL NULL / a nil []byte.
NULL == <<>>
\* A Go string holding the text p is the one-element tuple <<p>>; the
\* empty string is <<"">>.  Byte strings that are not text are longer tuples.
EmptyString == <<"">>
\* sdk.PasswordPlaceholder
PasswordPlaceholder == <<"**********">>

\* The application table: id, name and the key of the owning project.
Applications ==
    { [id |-> "1", name |-> "app1", projectkey |-> "KEY"],
      [id |-> "2", name |-> "app2", projectkey |-> "KEY"] }
AppIDs == { a.id : a \in Applications }
AppNames == { a.name : a \in Applications }
ProjectKeys == { a.projectkey : a \in Applications }

\* Variable names, in the order ORDER BY var_name yields.
NameOrder == <<"DB_PASS", "ENV">>
VarNames == { NameOrder[i] : i \in DOMAIN NameOrder }
NameRank(n) == CHOOSE i \in DOMAIN NameOrder : NameOrder[i] = n

\* sdk.VariableType: the kinds the codec recognises and a caller passes.
KnownTypes == {"string", "password"}
InputTypes == KnownTypes
\* Values a caller may insert, and values a caller may update to.
InsertValues == { <<"s3cr3t">> }
UpdateValues == { <<"rotated">>, PasswordPlaceholder }
\* How the codec represents the empty clear column of a secret.
EmptyClearReprs == { NULL, EmptyString }
Authors == {"alice"}
\* Functional arguments of the list operations.
FuncArgs == {"WithClearPassword", "WithEncryptPassword"}

\* sdk.NeedPlaceholder
NeedPlaceholder(t) == t \in {"password", "key"}
\* sdk.VariableTypeFromString
VariableTypeFromString(s) == s

\* ------------------------------------------------------------ secret codec
Encrypt(plain) == <<"enc">> \o plain
IsCipher(b) == Len(b) = 2 /\ b[1] = "enc"
Decrypt(b) ==
    IF IsCipher(b) THEN [val |-> <<b[2]>>, err |-> "nil"]
    ELSE [val |-> EmptyString, err |-> "CodecFailure"]

\* secret.EncryptS: (clearRepr, cipherBlob, error)
EncryptS(t, value, emptyRepr) ==
    IF t \notin KnownTypes
    THEN [clear |-> NULL, cipher |-> NULL, err |-> "CodecFailure"]
    ELSE IF ~NeedPlaceholder(t)
    THEN [clear |-> value, cipher |-> NULL, err |-> "nil"]
    ELSE [clear |-> emptyRepr, cipher |-> Encrypt(value), err |-> "nil"]

\* The String field of a scanned sql.NullString.
NullStringString(clear) == IF clear = NULL THEN EmptyString ELSE clear

\* secret.DecryptS
DecryptS(t, clear, cipher, wantPlaintext) ==
    IF ~NeedPlaceholder(t)
    THEN [val |-> NullStringString(clear), err |-> "nil"]
    ELSE IF ~wantPlaintext
    THEN [val |-> PasswordPlaceholder, err |-> "nil"]
    ELSE Decrypt(cipher)

\* string(cipherVal): a nil slice converts to the empty string.
StringOfBytes(b) == IF b = NULL THEN EmptyString ELSE b

\* --------------------------------------------------------- base64 and json
IsText(s) == Len(s) = 1 \/ (Len(s) > 1 /\ s[1] = "b64")
\* base64.StdEncoding.EncodeToString([]byte(s))
EncodeToString(s) == IF s = EmptyString THEN EmptyString ELSE <<"b64">> \o s
\* base64.StdEncoding.DecodeString(s)
DecodeString(s) ==
    IF s = EmptyString THEN [val |-> EmptyString, err |-> "nil"]
    ELSE IF Len(s) > 1 /\ s[1] = "b64" THEN [val |-> Tail(s), err |-> "nil"]
    ELSE [val |-> EmptyString, err |-> "CorruptInputError"]

\* json.Marshal of a string: bytes that are not valid UTF-8 are replaced.
JSONString(s) == IF IsText(s) THEN s ELSE <<"\\ufffd">>
\* json.Marshal([]sdk.Variable)
JSONMarshal(variables) ==
    [json |-> [i \in DOMAIN variables |->
        [variables[i] EXCEPT !.Value = JSONString(variables[i].Value)]]]
\* json.Unmarshal into []sdk.Variable
JSONUnmarshal(data) == data.json

\* ------------------------------------------------------------------- state
VARIABLES
    application_variable,        \* rows of table application_variable
    application_variable_audit,  \* rows of table application_variable_audit
    last_modified,               \* application.last_modified, by application id
    clock,                       \* the storage engine's current timestamp
    emptyClear,                  \* the codec's empty clear representation
    call,                        \* the last call made and what it returned
    pc                           \* the concurrent callers and where they are

vars == <<application_variable, application_variable_audit, last_modified,
          clock, emptyClear, call, pc>>

\* The database a call runs against.
DB ==
    [av |-> application_variable, audit |-> application_variable_audit,
     lm |-> last_modified, clock |-> clock]

\* Storage failures a call may meet: none, its first statement ("exec",
\* "query"), or the statement that bumps last_modified ("bump").
NoFail == {"none"}

Ok(db) == [db |-> db, err |-> "nil"]
Failed(db, e) == [db |-> db, err |-> e]

\* Rows of one application, in ORDER BY var_name order.
RowBefore(r, o) ==
    \/ NameRank(r.var_name) < NameRank(o.var_name)
    \/ NameRank(r.var_name) = NameRank(o.var_name) /\ r.id <= o.id
RECURSIVE OrderByVarName(_)
OrderByVarName(S) ==
    IF S = {} THEN <<>>
    ELSE LET r == CHOOSE x \in S : \A o \in S : RowBefore(x, o)
         IN <<r>> \o OrderByVarName(S \ {r})

\* Audit rows, in ORDER BY versionned DESC order.
RECURSIVE OrderByVersionnedDesc(_)
OrderByVersionnedDesc(S) ==
    IF S = {} THEN <<>>
    ELSE LET r == CHOOSE x \in S :
                    \A o \in S : x.versionned > o.versionned
                                 \/ (x.versionned = o.versionned /\ x.id >= o.id)
         IN <<r>> \o OrderByVersionnedDesc(S \ {r})

\* The first error of a sequence of results, "nil" if none.
FirstErr(rs) ==
    IF \E i \in DOMAIN rs : rs[i].err # "nil"
    THEN rs[CHOOSE i \in DOMAIN rs :
                /\ rs[i].err # "nil"
                /\ \A j \in DOMAIN rs : rs[j].err # "nil" => i <= j].err
    ELSE "nil"

\* UpdateLastModified(db, applicationID): bumps application.last_modified.
UpdateLastModified(db, applicationID, fail) ==
    IF fail = "bump" THEN Failed(db, "StorageFailure")
    ELSE Ok([db EXCEPT !.lm[applicationID] = db.clock])

\* The storage's INSERT into application_variable, under the primary key
\* (application_id, var_name).
ExecInsertVariable(db, row, fail) ==
    IF fail = "exec" THEN Failed(db, "StorageFailure")
    ELSE IF \E r \in db.av : r.application_id = row.application_id
                             /\ r.var_name = row.var_name
    THEN Failed(db, "application_variable_pkey")
    ELSE Ok([db EXCEPT !.av = @ \cup {row}, !.clock = @ + 1])

\* ---------------------------------------------------------- list and load
\* structarg after applying the functional arguments.
StructArg(args) ==
    [clearsecret |-> "WithClearPassword" \in args,
     encryptsecret |-> "WithEncryptPassword" \in args]

\* ScanVariable without the encryptsecret branch.
ScanVariableNoEncrypt(row, c) ==
    LET type == VariableTypeFromString(row.var_type)
        d == DecryptS(type, row.var_value, row.cipher_value, c.clearsecret)
    IN [v |-> [ID |-> row.id, Name |-> row.var_name, Value |-> d.val,
               Type |-> type],
        err |-> d.err]

\* ScanVariable handing out the cipher column of every kind in
\* encrypted-token mode.
ScanVariableEncryptAll(row, c) ==
    LET type == VariableTypeFromString(row.var_type)
        d == IF c.encryptsecret
             THEN [val |-> StringOfBytes(row.cipher_value), err |-> "nil"]
             ELSE DecryptS(type, row.var_value, row.cipher_value, c.clearsecret)
    IN [v |-> [ID |-> row.id, Name |-> row.var_name, Value |-> d.val,
               Type |-> type],
        err |-> d.err]

\* One iteration of GetAllVariable's rows.Next() loop.
ScanVariable(row, c) ==
    LET type == VariableTypeFromString(row.var_type)
        d == IF c.encryptsecret /\ NeedPlaceholder(type)
             THEN [val |-> StringOfBytes(row.cipher_value), err |-> "nil"]
             ELSE DecryptS(type, row.var_value, row.cipher_value, c.clearsecret)
    IN [v |-> [ID |-> row.id, Name |-> row.var_name, Value |-> d.val,
               Type |-> type],
        err |-> d.err]

\* One iteration of GetAllVariableByID's rows.Next() loop.
ScanVariableByID(row, c) ==
    LET type == VariableTypeFromString(row.var_type)
        d == DecryptS(type, row.var_value, row.cipher_value, c.clearsecret)
    IN [v |-> [ID |-> row.id, Name |-> row.var_name, Value |-> d.val,
               Type |-> type],
        err |-> d.err]

\* The applications a (name, project key) pair joins to.
JoinApplication(key, appName) ==
    { a.id : a \in { x \in Applications :
                        x.name = appName /\ x.projectkey = key } }

GetAllVariable(db, key, appName, args, fail) ==
    LET c == StructArg(args)
        rows == OrderByVarName({ r \in db.av :
                    r.application_id \in JoinApplication(key, appName) })
        scanned == [i \in DOMAIN rows |-> ScanVariable(rows[i], c)]
    IN IF fail = "query" THEN [ret |-> <<>>, err |-> "StorageFailure"]
       ELSE IF FirstErr(scanned) # "nil"
       THEN [ret |-> <<>>, err |-> FirstErr(scanned)]
       ELSE [ret |-> [i \in DOMAIN rows |-> scanned[i].v], err |-> "nil"]

GetAllVariableByID(db, applicationID, fargs, fail) ==
    LET c == StructArg(fargs)
        rows == OrderByVarName({ r \in db.av :
                    r.application_id = applicationID })
        scanned == [i \in DOMAIN rows |-> ScanVariableByID(rows[i], c)]
    IN IF fail = "query" THEN [ret |-> <<>>, err |-> "StorageFailure"]
       ELSE IF FirstErr(scanned) # "nil"
       THEN [ret |-> <<>>, err |-> FirstErr(scanned)]
       ELSE [ret |-> [i \in DOMAIN rows |-> scanned[i].v], err |-> "nil"]

\* The zero sdk.Variable.
ZeroVariable == [ID |-> 0, Name |-> "", Value |-> EmptyString, Type |-> ""]

\* The placeholder step of LoadVariable.
LoadPlaceholder(v) ==
    IF NeedPlaceholder(v.Type) THEN [v EXCEPT !.Value = PasswordPlaceholder]
    ELSE v

\* QueryRow(...).Scan(&v.ID, &v.Name, &v.Value, &v.Type): the destinations
\* are assigned in order, and a NULL does not convert to a string.
LoadVariable(db, appID, varName, fail) ==
    LET rows == { r \in db.av :
                    r.application_id = appID /\ r.var_name = varName }
        row == CHOOSE r \in rows : \A o \in rows : r.id <= o.id
    IN IF fail = "query" THEN [ret |-> ZeroVariable, err |-> "StorageFailure"]
       ELSE IF rows = {} THEN [ret |-> ZeroVariable, err |-> "sql.ErrNoRows"]
       ELSE IF row.var_value = NULL
       THEN [ret |-> [ZeroVariable EXCEPT !.ID = row.id, !.Name = row.var_name],
             err |-> "ScanError"]
       ELSE [ret |-> LoadPlaceholder([ID |-> row.id, Name |-> row.var_name,
                                      Value |-> row.var_value,
                                      Type |-> row.var_type]),
             err |-> "nil"]

\* ---------------------------------------------------------------- mutations
\* InsertVariable that does not recognise the primary-key error.
InsertVariableIgnoreExists(db, applicationID, variable, emptyRepr, fail) ==
    LET e == EncryptS(variable.Type, variable.Value, emptyRepr)
        row == [id |-> db.clock + 1, application_id |-> applicationID,
                var_name |-> variable.Name, var_value |-> e.clear,
                cipher_value |-> e.cipher, var_type |-> variable.Type]
        x == ExecInsertVariable(db, row, fail)
    IN IF e.err # "nil" THEN Failed(db, e.err)
       ELSE IF x.err = "StorageFailure" THEN x
       ELSE UpdateLastModified([x.db EXCEPT !.clock = db.clock + 1],
                               applicationID, fail)

\* InsertVariable running both statements in one transaction: a failed bump
\* rolls the insert back.
InsertVariableAtomic(db, applicationID, variable, emptyRepr, fail) ==
    LET e == EncryptS(variable.Type, variable.Value, emptyRepr)
        row == [id |-> db.clock + 1, application_id |-> applicationID,
                var_name |-> variable.Name, var_value |-> e.clear,
                cipher_value |-> e.cipher, var_type |-> variable.Type]
        x == ExecInsertVariable(db, row, fail)
        b == UpdateLastModified(x.db, applicationID, fail)
    IN IF e.err # "nil" THEN Failed(db, e.err)
       ELSE IF x.err = "application_variable_pkey"
       THEN Failed(x.db, "ErrVariableExists")
       ELSE IF x.err # "nil" THEN x
       ELSE IF b.err # "nil" THEN Failed(db, b.err)
       ELSE b

InsertVariable(db, applicationID, variable, emptyRepr, fail) ==
    LET e == EncryptS(variable.Type, variable.Value, emptyRepr)
        row == [id |-> db.clock + 1, application_id |-> applicationID,
                var_name |-> variable.Name, var_value |-> e.clear,
                cipher_value |-> e.cipher, var_type |-> variable.Type]
        x == ExecInsertVariable(db, row, fail)
    IN IF e.err # "nil" THEN Failed(db, e.err)
       ELSE IF x.err = "application_variable_pkey"
       THEN Failed(x.db, "ErrVariableExists")
       ELSE IF x.err # "nil" THEN x
       ELSE UpdateLastModified(x.db, applicationID, fail)

\* UpdateVariable without the placeholder check.
UpdateVariableNoSkip(db, applicationID, variable, emptyRepr, fail) ==
    LET e == EncryptS(variable.Type, variable.Value, emptyRepr)
        hit == { r \in db.av : r.application_id = applicationID
                               /\ r.var_name = variable.Name }
        new == { [r EXCEPT !.var_value = e.clear, !.cipher_value = e.cipher,
                           !.var_type = variable.Type] : r \in hit }
    IN IF e.err # "nil" THEN Failed(db, e.err)
       ELSE IF fail = "exec" THEN Failed(db, "StorageFailure")
       ELSE IF Cardinality(hit) = 0 THEN Failed(db, "ErrNoVariable")
       ELSE UpdateLastModified(
                [db EXCEPT !.av = (@ \ hit) \cup new, !.clock = @ + 1],
                applicationID, fail)

\* UpdateVariable whose UPDATE statement leaves cipher_value out of its SET
\* list.
UpdateVariableKeepCipher(db, applicationID, variable, emptyRepr, fail) ==
    LET e == EncryptS(variable.Type, variable.Value, emptyRepr)
        hit == { r \in db.av : r.application_id = applicationID
                               /\ r.var_name = variable.Name }
        new == { [r EXCEPT !.var_value = e.clear,
                           !.var_type = variable.Type] : r \in hit }
    IN IF NeedPlaceholder(variable.Type) /\ variable.Value = PasswordPlaceholder
       THEN Ok(db)
       ELSE IF e.err # "nil" THEN Failed(db, e.err)
       ELSE IF fail = "exec" THEN Failed(db, "StorageFailure")
       ELSE IF Cardinality(hit) = 0 THEN Failed(db, "ErrNoVariable")
       ELSE UpdateLastModified(
                [db EXCEPT !.av = (@ \ hit) \cup new, !.clock = @ + 1],
                applicationID, fail)

\* UpdateVariable whose UPDATE statement matches on var_name alone.
UpdateVariableAnyApplication(db, applicationID, variable, emptyRepr, fail) ==
    LET e == EncryptS(variable.Type, variable.Value, emptyRepr)
        hit == { r \in db.av : r.var_name = variable.Name }
        new == { [r EXCEPT !.var_value = e.clear, !.cipher_value = e.cipher,
                           !.var_type = variable.Type] : r \in hit }
    IN IF NeedPlaceholder(variable.Type) /\ variable.Value = PasswordPlaceholder
       THEN Ok(db)
       ELSE IF e.err # "nil" THEN Failed(db, e.err)
       ELSE IF fail = "exec" THEN Failed(db, "StorageFailure")
       ELSE IF Cardinality(hit) = 0 THEN Failed(db, "ErrNoVariable")
       ELSE UpdateLastModified(
                [db EXCEPT !.av = (@ \ hit) \cup new, !.clock = @ + 1],
                applicationID, fail)

\* UpdateVariable that does not look at the number of rows affected.
UpdateVariableNoRowCheck(db, applicationID, variable, emptyRepr, fail) ==
    LET e == EncryptS(variable.Type, variable.Value, emptyRepr)
        hit == { r \in db.av : r.application_id = applicationID
                               /\ r.var_name = variable.Name }
        new == { [r EXCEPT !.var_value = e.clear, !.cipher_value = e.cipher,
                           !.var_type = variable.Type] : r \in hit }
    IN IF NeedPlaceholder(variable.Type) /\ variable.Value = PasswordPlaceholder
       THEN Ok(db)
       ELSE IF e.err # "nil" THEN Failed(db, e.err)
       ELSE IF fail = "exec" THEN Failed(db, "StorageFailure")
       ELSE UpdateLastModified(
                [db EXCEPT !.av = (@ \ hit) \cup new, !.clock = @ + 1],
                applicationID, fail)

UpdateVariable(db, applicationID, variable, emptyRepr, fail) ==
    LET e == EncryptS(variable.Type, variable.Value, emptyRepr)
        hit == { r \in db.av : r.application_id = applicationID
                               /\ r.var_name = variable.Name }
        new == { [r EXCEPT !.var_value = e.clear, !.cipher_value = e.cipher,
                           !.var_type = variable.Type] : r \in hit }
        rowAffected == Cardinality(hit)
    IN IF NeedPlaceholder(variable.Type) /\ variable.Value = PasswordPlaceholder
       THEN Ok(db)
       ELSE IF e.err # "nil" THEN Failed(db, e.err)
       ELSE IF fail = "exec" THEN Failed(db, "StorageFailure")
       ELSE IF rowAffected = 0 THEN Failed(db, "ErrNoVariable")
       ELSE UpdateLastModified(
                [db EXCEPT !.av = (@ \ hit) \cup new, !.clock = @ + 1],
                applicationID, fail)

\* DeleteVariable without the last_modified bump.
DeleteVariableNoBump(db, applicationID, variableName, fail) ==
    LET hit == { r \in db.av : applicationID \in AppIDs
                               /\ r.var_name = variableName }
    IN IF fail = "exec" THEN Failed(db, "StorageFailure")
       ELSE IF hit = {} THEN Failed(db, "ErrNoVariable")
       ELSE Ok([db EXCEPT !.av = @ \ hit, !.clock = @ + 1])

DeleteVariable(db, applicationID, variableName, fail) ==
    LET hit == { r \in db.av : applicationID \in AppIDs
                               /\ r.var_name = variableName }
        rowAffected == Cardinality(hit)
    IN IF fail = "exec" THEN Failed(db, "StorageFailure")
       ELSE IF rowAffected = 0 THEN Failed(db, "ErrNoVariable")
       ELSE UpdateLastModified(
                [db EXCEPT !.av = @ \ hit, !.clock = @ + 1],
                applicationID, fail)

\* DeleteAllVariable whose DELETE has lost its WHERE clause.
DeleteAllVariableNoWhere(db, applicationID, fail) ==
    LET db1 == [db EXCEPT !.av = {}, !.clock = @ + 1]
    IN IF fail = "exec" THEN Failed(db, "StorageFailure")
       ELSE IF fail = "bump" THEN Failed(db1, "StorageFailure")
       ELSE Ok([db1 EXCEPT !.lm[applicationID] = db1.clock])

DeleteAllVariable(db, applicationID, fail) ==
    LET hit == { r \in db.av : r.application_id = applicationID }
        db1 == [db EXCEPT !.av = @ \ hit, !.clock = @ + 1]
    IN IF fail = "exec" THEN Failed(db, "StorageFailure")
       ELSE IF fail = "bump" THEN Failed(db1, "StorageFailure")
       ELSE Ok([db1 EXCEPT !.lm[applicationID] = db1.clock])

\* -------------------------------------------------------------- audit trail
\* EncodeSecrets with the base64 step left out.
EncodeSecretsNone(variables) == variables

\* The loop of CreateAudit that makes secret values text-safe.
EncodeSecrets(variables) ==
    [i \in DOMAIN variables |->
        IF NeedPlaceholder(variables[i].Type)
        THEN [variables[i] EXCEPT !.Value = EncodeToString(variables[i].Value)]
        ELSE variables[i]]

\* CreateAudit keeping only the newest audit of the table.
CreateAuditReplace(db, key, app, u, fail) ==
    LET g == GetAllVariable(db, key, app.name, {"WithEncryptPassword"},
                            IF fail = "query" THEN "query" ELSE "none")
        data == JSONMarshal(EncodeSecrets(g.ret))
        row == [id |-> db.clock + 1, versionned |-> db.clock + 1,
                application_id |-> app.id, data |-> data, author |-> u]
    IN IF g.err # "nil" THEN Failed(db, g.err)
       ELSE IF fail = "exec" THEN Failed(db, "StorageFailure")
       ELSE Ok([db EXCEPT !.audit = {row}, !.clock = @ + 1])

CreateAudit(db, key, app, u, fail) ==
    LET g == GetAllVariable(db, key, app.name, {"WithEncryptPassword"},
                            IF fail = "query" THEN "query" ELSE "none")
        data == JSONMarshal(EncodeSecrets(g.ret))
        row == [id |-> db.clock + 1, versionned |-> db.clock + 1,
                application_id |-> app.id, data |-> data, author |-> u]
    IN IF g.err # "nil" THEN Failed(db, g.err)
       ELSE IF fail = "exec" THEN Failed(db, "StorageFailure")
       ELSE Ok([db EXCEPT !.audit = @ \cup {row}, !.clock = @ + 1])

\* The loop of GetAudit over the deserialized variables.
DecodeSecret(v) ==
    IF NeedPlaceholder(v.Type)
    THEN LET d == DecodeString(v.Value)
         IN [v |-> [v EXCEPT !.Value = d.val], err |-> d.err]
    ELSE [v |-> v, err |-> "nil"]

GetAudit(db, key, appName, auditID, fail) ==
    LET rows == { r \in db.audit :
                    /\ r.application_id \in JoinApplication(key, appName)
                    /\ r.id = auditID }
        row == CHOOSE r \in rows : TRUE
        variables == JSONUnmarshal(row.data)
        decoded == [i \in DOMAIN variables |-> DecodeSecret(variables[i])]
    IN IF fail = "query" THEN [ret |-> <<>>, err |-> "StorageFailure"]
       ELSE IF rows = {} THEN [ret |-> <<>>, err |-> "sql.ErrNoRows"]
       ELSE IF FirstErr(decoded) # "nil"
       THEN [ret |-> <<>>, err |-> FirstErr(decoded)]
       ELSE [ret |-> [i \in DOMAIN variables |-> decoded[i].v], err |-> "nil"]

\* RedactSecrets with the placeholder step left out.
RedactSecretsNone(variables) == variables

\* The loop of GetVariableAudit over one audit's variables.
RedactSecrets(variables) ==
    [i \in DOMAIN variables |->
        IF NeedPlaceholder(variables[i].Type)
        THEN [variables[i] EXCEPT !.Value = PasswordPlaceholder]
        ELSE variables[i]]

GetVariableAudit(db, key, appName, fail) ==
    LET rows == OrderByVersionnedDesc({ r \in db.audit :
                    r.application_id \in JoinApplication(key, appName) })
    IN IF fail = "query" THEN [ret |-> <<>>, err |-> "StorageFailure"]
       ELSE [ret |-> [i \in DOMAIN rows |->
                        [ID |-> rows[i].id, Versionned |-> rows[i].versionned,
                         Author |-> rows[i].author,
                         Variables |->
                            RedactSecrets(JSONUnmarshal(rows[i].data))]],
             err |-> "nil"]

\* ------------------------------------------------------------ state machine
NoCall ==
    [op |-> "none", app |-> "", key |-> "", name |-> "", type |-> "",
     value |-> EmptyString, args |-> {}, auditID |-> 0, fail |-> "none",
     err |-> "nil", ret |-> <<>>]

\* The empty database.
EmptyDB == [av |-> {}, audit |-> {}, lm |-> [a \in AppIDs |-> 0], clock |-> 0]

\* The database two InsertVariable calls on the empty database leave:
\* application 1 holds the secret DB_PASS and the string ENV.
ScenarioDB(emptyRepr) ==
    LET first == InsertVariable(EmptyDB, "1",
                    [Name |-> "DB_PASS", Type |-> "password",
                     Value |-> <<"s3cr3t">>], emptyRepr, "none").db
    IN InsertVariable(first, "1",
                    [Name |-> "ENV", Type |-> "string",
                     Value |-> <<"prod">>], emptyRepr, "none").db

\* The clock of the initial database.
ScenarioClock == ScenarioDB(NULL).clock

\* The callers of the concurrent scenario: two InsertVariable calls and one
\* CreateAudit call. In the sequential specifications none of them runs.
Inserters == {"insert1", "insert2"}
Callers == Inserters \cup {"audit"}
NoCaller ==
    [at |-> "idle", app |-> "", name |-> "", type |-> "",
     value |-> EmptyString, err |-> "nil", data |-> [json |-> <<>>]]
NoCallers == [p \in Callers |-> NoCaller]

Init ==
    /\ emptyClear \in EmptyClearReprs
    /\ application_variable = ScenarioDB(emptyClear).av
    /\ application_variable_audit = ScenarioDB(emptyClear).audit
    /\ last_modified = ScenarioDB(emptyClear).lm
    /\ clock = ScenarioDB(emptyClear).clock
    /\ call = NoCall
    /\ pc = NoCallers

\* The database after a call that returned r.
Commit(r) ==
    /\ r.db.clock <= ScenarioClock + MaxClock
    /\ UNCHANGED <<emptyClear, pc>>
    /\ application_variable' = r.db.av
    /\ application_variable_audit' = r.db.audit
    /\ last_modified' = r.db.lm
    /\ clock' = r.db.clock

Unchanged ==
    UNCHANGED <<application_variable, application_variable_audit,
                last_modified, clock, emptyClear, pc>>

CallInsertVariable(fails) ==
    \E a \in AppIDs, n \in VarNames, t \in InputTypes, v \in InsertValues,
       f \in fails :
        LET r == InsertVariable(DB, a, [Name |-> n, Type |-> t, Value |-> v],
                                emptyClear, f)
        IN /\ Commit(r)
           /\ call' = [NoCall EXCEPT !.op = "InsertVariable", !.app = a,
                          !.name = n, !.type = t, !.value = v, !.fail = f,
                          !.err = r.err]

CallUpdateVariable(fails) ==
    \E a \in AppIDs, n \in VarNames, t \in InputTypes, v \in UpdateValues,
       f \in fails :
        LET r == UpdateVariable(DB, a, [Name |-> n, Type |-> t, Value |-> v],
                                emptyClear, f)
        IN /\ Commit(r)
           /\ call' = [NoCall EXCEPT !.op = "UpdateVariable", !.app = a,
                          !.name = n, !.type = t, !.value = v, !.fail = f,
                          !.err = r.err]

CallDeleteVariable(fails) ==
    \E a \in AppIDs, n \in VarNames, f \in fails :
        LET r == DeleteVariable(DB, a, n, f)
        IN /\ Commit(r)
           /\ call' = [NoCall EXCEPT !.op = "DeleteVariable", !.app = a,
                          !.name = n, !.fail = f, !.err = r.err]

CallDeleteAllVariable(fails) ==
    \E a \in AppIDs, f \in fails :
        LET r == DeleteAllVariable(DB, a, f)
        IN /\ Commit(r)
           /\ call' = [NoCall EXCEPT !.op = "DeleteAllVariable", !.app = a,
                          !.fail = f, !.err = r.err]

CallCreateAudit(fails) ==
    \E app \in Applications, k \in ProjectKeys, u \in Authors,
       f \in fails :
        LET r == CreateAudit(DB, k, app, u, f)
        IN /\ Commit(r)
           /\ call' = [NoCall EXCEPT !.op = "CreateAudit", !.app = app.id,
                          !.key = k, !.name = u, !.fail = f, !.err = r.err]

CallGetAllVariable(fails) ==
    \E k \in ProjectKeys, an \in AppNames, args \in SUBSET FuncArgs,
       f \in fails :
        LET r == GetAllVariable(DB, k, an, args, f)
        IN /\ Unchanged
           /\ call' = [NoCall EXCEPT !.op = "GetAllVariable", !.app = an,
                          !.key = k, !.args = args, !.fail = f,
                          !.err = r.err, !.ret = r.ret]

CallGetAllVariableByID(fails) ==
    \E a \in AppIDs, args \in SUBSET FuncArgs, f \in fails :
        LET r == GetAllVariableByID(DB, a, args, f)
        IN /\ Unchanged
           /\ call' = [NoCall EXCEPT !.op = "GetAllVariableByID", !.app = a,
                          !.args = args, !.fail = f,
                          !.err = r.err, !.ret = r.ret]

CallLoadVariable(fails) ==
    \E a \in AppIDs, n \in VarNames, f \in fails :
        LET r == LoadVariable(DB, a, n, f)
        IN /\ Unchanged
           /\ call' = [NoCall EXCEPT !.op = "LoadVariable", !.app = a,
                          !.name = n, !.fail = f,
                          !.err = r.err, !.ret = r.ret]

CallGetAudit(fails) ==
    \E k \in ProjectKeys, an \in AppNames,
       id \in {0} \cup { x.id : x \in application_variable_audit },
       f \in fails :
        LET r == GetAudit(DB, k, an, id, f)
        IN /\ Unchanged
           /\ call' = [NoCall EXCEPT !.op = "GetAudit", !.app = an,
                          !.key = k, !.auditID = id, !.fail = f,
                          !.err = r.err, !.ret = r.ret]

CallGetVariableAudit(fails) ==
    \E k \in ProjectKeys, an \in AppNames, f \in fails :
        LET r == GetVariableAudit(DB, k, an, f)
        IN /\ Unchanged
           /\ call' = [NoCall EXCEPT !.op = "GetVariableAudit", !.app = an,
                          !.key = k, !.fail = f,
                          !.err = r.err, !.ret = r.ret]

Next ==
    \/ CallInsertVariable(NoFail)
    \/ CallUpdateVariable(NoFail)
    \/ CallDeleteVariable(NoFail)
    \/ CallDeleteAllVariable(NoFail)
    \/ CallCreateAudit(NoFail)
    \/ CallGetAllVariable(NoFail)
    \/ CallGetAllVariableByID(NoFail)
    \/ CallLoadVariable(NoFail)
    \/ CallGetAudit(NoFail)
    \/ CallGetVariableAudit(NoFail)

Spec == Init /\ [][Next]_vars

\* The mutations under storage failures: the statement that bumps
\* last_modified may fail after the row change is applied.
WriteFaults == {"none", "bump"}

NextFault ==
    \/ CallInsertVariable(WriteFaults)
    \/ CallUpdateVariable(WriteFaults)
    \/ CallDeleteVariable(WriteFaults)
    \/ CallDeleteAllVariable(WriteFaults)

SpecFault == Init /\ [][NextFault]_vars

\* ------------------------------------------------------ concurrent callers
\* The value each concurrent InsertVariable call writes.
CallerValue(p) == IF p = "insert1" THEN <<"s3cr3t">> ELSE <<"rotated">>

\* InsertVariableExec taking a primary-key violation for a success.
InsertVariableExecNoMap(db, applicationID, variable, emptyRepr) ==
    LET e == EncryptS(variable.Type, variable.Value, emptyRepr)
        row == [id |-> db.clock + 1, application_id |-> applicationID,
                var_name |-> variable.Name, var_value |-> e.clear,
                cipher_value |-> e.cipher, var_type |-> variable.Type]
        x == ExecInsertVariable(db, row, "none")
    IN IF e.err # "nil" THEN [db |-> db, err |-> e.err, at |-> "done"]
       ELSE IF x.err \notin {"nil", "application_variable_pkey"}
       THEN [db |-> x.db, err |-> x.err, at |-> "done"]
       ELSE [db |-> x.db, err |-> "nil", at |-> "bump"]

\* InsertVariable up to the return of its INSERT statement: the error it
\* returns there, or "bump" when it goes on to UpdateLastModified.
InsertVariableExec(db, applicationID, variable, emptyRepr) ==
    LET e == EncryptS(variable.Type, variable.Value, emptyRepr)
        row == [id |-> db.clock + 1, application_id |-> applicationID,
                var_name |-> variable.Name, var_value |-> e.clear,
                cipher_value |-> e.cipher, var_type |-> variable.Type]
        x == ExecInsertVariable(db, row, "none")
    IN IF e.err # "nil" THEN [db |-> db, err |-> e.err, at |-> "done"]
       ELSE IF x.err = "application_variable_pkey"
       THEN [db |-> x.db, err |-> "ErrVariableExists", at |-> "done"]
       ELSE IF x.err # "nil" THEN [db |-> x.db, err |-> x.err, at |-> "done"]
       ELSE [db |-> x.db, err |-> "nil", at |-> "bump"]

\* Two InsertVariable calls with the same (application, name) and one
\* CreateAudit call on that application are about to run on the scenario's
\* database.
InitConcurrent ==
    /\ emptyClear \in EmptyClearReprs
    /\ application_variable = ScenarioDB(emptyClear).av
    /\ application_variable_audit = ScenarioDB(emptyClear).audit
    /\ last_modified = ScenarioDB(emptyClear).lm
    /\ clock = ScenarioDB(emptyClear).clock
    /\ call = NoCall
    /\ \E a \in AppIDs, n \in VarNames, t \in [Inserters -> InputTypes],
          u \in Authors :
          pc = [p \in Callers |->
                  IF p \in Inserters
                  THEN [NoCaller EXCEPT !.at = "exec", !.app = a, !.name = n,
                                        !.type = t[p], !.value = CallerValue(p)]
                  ELSE [NoCaller EXCEPT !.at = "read", !.app = a, !.name = u]]

\* The database after a statement of a concurrent caller.
Store(db) ==
    /\ application_variable' = db.av
    /\ application_variable_audit' = db.audit
    /\ last_modified' = db.lm
    /\ clock' = db.clock
    /\ UNCHANGED <<emptyClear, call>>

\* InsertVariable, lines 241-254: encrypt, INSERT, map the storage error.
InsertExec(p) ==
    /\ pc[p].at = "exec"
    /\ LET r == InsertVariableExec(DB, pc[p].app,
                    [Name |-> pc[p].name, Type |-> pc[p].type,
                     Value |-> pc[p].value], emptyClear)
       IN /\ Store(r.db)
          /\ pc' = [pc EXCEPT ![p].at = r.at, ![p].err = r.err]

\* InsertVariable, line 255: the last_modified bump and the return.
InsertBump(p) ==
    /\ pc[p].at = "bump"
    /\ LET r == UpdateLastModified(DB, pc[p].app, "none")
       IN /\ Store(r.db)
          /\ pc' = [pc EXCEPT ![p].at = "done", ![p].err = r.err]

\* CreateAudit, lines 44-58: read the variables and serialize them.
AuditRead ==
    /\ pc["audit"].at = "read"
    /\ LET app == CHOOSE x \in Applications : x.id = pc["audit"].app
           g == GetAllVariable(DB, app.projectkey, app.name,
                               {"WithEncryptPassword"}, "none")
       IN pc' = [pc EXCEPT !["audit"].at =
                               IF g.err = "nil" THEN "insert" ELSE "done",
                           !["audit"].err = g.err,
                           !["audit"].data = JSONMarshal(EncodeSecrets(g.ret))]
    /\ Store(DB)

\* CreateAudit, lines 60-65: INSERT the audit row, stamped by the storage.
AuditInsert ==
    /\ pc["audit"].at = "insert"
    /\ LET row == [id |-> clock + 1, versionned |-> clock + 1,
                   application_id |-> pc["audit"].app,
                   data |-> pc["audit"].data, author |-> pc["audit"].name]
       IN Store([DB EXCEPT !.audit = @ \cup {row}, !.clock = @ + 1])
    /\ pc' = [pc EXCEPT !["audit"].at = "done"]

NextConcurrent ==
    \/ \E p \in Inserters : InsertExec(p)
    \/ \E p \in Inserters : InsertBump(p)
    \/ AuditRead
    \/ AuditInsert

SpecConcurrent == InitConcurrent /\ [][NextConcurrent]_vars

\* ------------------------------------------------------------------ claims
\* Rows of one application.
RowsOf(av, applicationID) == { r \in av : r.application_id = applicationID }
\* The applications a list call addressed.
CalledApps ==
    IF call.op = "GetAllVariableByID" THEN {call.app}
    ELSE JoinApplication(call.key, call.app)
\* The rows a list call addressed.
CalledRows == { r \in application_variable : r.application_id \in CalledApps }
\* The plaintext a stored row stands for.
PlaintextOf(r) ==
    IF NeedPlaceholder(r.var_type) THEN Decrypt(r.cipher_value).val
    ELSE r.var_value
IsListCall == call.op \in {"GetAllVariable", "GetAllVariableByID"}
\* A list call returned row r with value val.
Returned(r, val) ==
    \E i \in DOMAIN call.ret :
        call.ret[i].Name = r.var_name /\ call.ret[i].Value = val

\* C1: a redacted-mode read (a list call with no option, LoadVariable)
\* returns the sentinel as the value of every secret variable.
C1_RedactedReadReturnsSentinel ==
    /\ (IsListCall /\ call.args = {}) =>
          /\ call.err = "nil"
          /\ \A r \in CalledRows :
                NeedPlaceholder(r.var_type) => Returned(r, PasswordPlaceholder)
    /\ call.op = "LoadVariable" =>
          \A r \in RowsOf(application_variable, call.app) :
             (r.var_name = call.name /\ NeedPlaceholder(r.var_type)) =>
                /\ call.err = "nil"
                /\ call.ret.Value = PasswordPlaceholder

\* The variables of an application as a snapshot holds them, secrets as
\* plaintext (plain = TRUE) or as the stored cipher blob (plain = FALSE).
SnapshotOf(av, applicationID, plain) ==
    LET rows == OrderByVarName(RowsOf(av, applicationID))
    IN [i \in DOMAIN rows |->
          [ID |-> rows[i].id, Name |-> rows[i].var_name,
           Type |-> rows[i].var_type,
           Value |-> IF plain \/ ~NeedPlaceholder(rows[i].var_type)
                     THEN PlaintextOf(rows[i])
                     ELSE rows[i].cipher_value]]
AppName(applicationID) ==
    (CHOOSE a \in Applications : a.id = applicationID).name
AppKey(applicationID) ==
    (CHOOSE a \in Applications : a.id = applicationID).projectkey
\* GetAudit on the audit a CreateAudit step has just stored returns want.
AuditRoundTrip(plain) ==
    (call'.op = "CreateAudit" /\ call'.err = "nil") =>
        LET got == GetAudit(DB', call'.key, AppName(call'.app), clock', "none")
        IN /\ got.err = "nil"
           /\ got.ret = SnapshotOf(application_variable, call'.app, plain)

StoredEntries ==
    UNION { { JSONUnmarshal(a.data)[i] : i \in DOMAIN JSONUnmarshal(a.data) } :
            a \in application_variable_audit }

\* C3: every stored snapshot holds each secret entry as the base64 encoding
\* of an encrypted blob, never as plaintext.
C3_SnapshotSecretsEncrypted ==
    \A e \in StoredEntries :
        NeedPlaceholder(e.Type) =>
            /\ Len(e.Value) > 1 /\ e.Value[1] = "b64"
            /\ IsCipher(DecodeString(e.Value).val)
            /\ e.Value # Decrypt(DecodeString(e.Value).val).val

C3_Witness == \E e \in StoredEntries : NeedPlaceholder(e.Type)

\* C4: GetVariableAudit returns every stored snapshot of the application,
\* secret entries as the sentinel and the other entries as stored; with no
\* snapshot it returns an empty sequence and no error.
C4_AuditListRedacted ==
    call.op = "GetVariableAudit" =>
        LET stored == { a \in application_variable_audit :
                          a.application_id \in CalledApps }
        IN /\ call.err = "nil"
           /\ Len(call.ret) = Cardinality(stored)
           /\ stored = {} => call.ret = <<>>
           /\ \A a \in stored : \E i \in DOMAIN call.ret :
                /\ call.ret[i].ID = a.id
                /\ DOMAIN call.ret[i].Variables = DOMAIN JSONUnmarshal(a.data)
                /\ \A j \in DOMAIN call.ret[i].Variables :
                      LET e == JSONUnmarshal(a.data)[j]
                          v == call.ret[i].Variables[j]
                      IN /\ v.Name = e.Name /\ v.Type = e.Type
                         /\ v.Value = IF NeedPlaceholder(e.Type)
                                      THEN PasswordPlaceholder ELSE e.Value

C4_Witness ==
    /\ call.op = "GetVariableAudit"
    /\ \E i \in DOMAIN call.ret : \E j \in DOMAIN call.ret[i].Variables :
          NeedPlaceholder(call.ret[i].Variables[j].Type)

\* An application holds at most one variable per name.
UniqueNames(av) ==
    \A r, o \in av :
        (r.application_id = o.application_id /\ r.var_name = o.var_name)
            => r = o

\* C5: an InsertVariable of a recognised kind on an (application, name) that
\* is present returns the 'variable already exists' error and leaves the
\* stored variables and last_modified unchanged; names stay unique.
C5_InsertExisting ==
    [][/\ (/\ call'.op = "InsertVariable"
           /\ call'.type \in KnownTypes
           /\ \E r \in RowsOf(application_variable, call'.app) :
                 r.var_name = call'.name)
          => /\ call'.err = "ErrVariableExists"
             /\ application_variable' = application_variable
             /\ last_modified' = last_modified
       /\ UniqueNames(application_variable')]_vars

C5_Witness ==
    /\ call.op = "InsertVariable" /\ call.err = "ErrVariableExists"
    /\ \E r \in RowsOf(application_variable, call.app) :
          r.var_name = call.name /\ r.var_type # call.type

\* C6: UpdateVariable with a secret kind and the sentinel as value returns
\* success and changes no stored variable and no last_modified.
C6_RedactedUpdateNoOp ==
    [][(/\ call'.op = "UpdateVariable"
        /\ NeedPlaceholder(call'.type)
        /\ call'.value = PasswordPlaceholder)
       => /\ call'.err = "nil"
          /\ application_variable' = application_variable
          /\ last_modified' = last_modified]_vars

C6_Witness ==
    /\ call.op = "UpdateVariable" /\ call.err = "nil"
    /\ NeedPlaceholder(call.type) /\ call.value = PasswordPlaceholder
    /\ \E r \in RowsOf(application_variable, call.app) :
          r.var_name = call.name /\ NeedPlaceholder(r.var_type)

\* C7: after a successful InsertVariable(v), LoadVariable(v.name) succeeds
\* with v.value if v is not secret and with the sentinel if it is, and a
\* list with WithClearPassword returns v.value.
C7_InsertLoadRoundTrip ==
    [][(call'.op = "InsertVariable" /\ call'.err = "nil") =>
        LET l == LoadVariable(DB', call'.app, call'.name, "none")
            byID == GetAllVariableByID(DB', call'.app,
                                       {"WithClearPassword"}, "none")
            byName == GetAllVariable(DB', AppKey(call'.app),
                                     AppName(call'.app),
                                     {"WithClearPassword"}, "none")
        IN /\ l.err = "nil"
           /\ l.ret.Value = IF NeedPlaceholder(call'.type)
                            THEN PasswordPlaceholder ELSE call'.value
           /\ \E i \in DOMAIN byID.ret :
                 /\ byID.ret[i].Name = call'.name
                 /\ byID.ret[i].Value = call'.value
           /\ \E i \in DOMAIN byName.ret :
                 /\ byName.ret[i].Name = call'.name
                 /\ byName.ret[i].Value = call'.value]_vars

\* C8: a list call made with WithEncryptPassword returns the stored cipher
\* blob of every secret variable, by name and by identifier alike.
C8_EncryptedTokenMode ==
    (IsListCall /\ "WithEncryptPassword" \in call.args) =>
        /\ call.err = "nil"
        /\ \A r \in CalledRows :
              NeedPlaceholder(r.var_type) => Returned(r, r.cipher_value)

\* C9: DeleteVariable(A, name) on a name A does not hold returns the 'no
\* such variable' error, removes no variable and bumps no last_modified.
C9_DeleteMissing ==
    [][(/\ call'.op = "DeleteVariable"
        /\ ~\E r \in RowsOf(application_variable, call'.app) :
               r.var_name = call'.name)
       => /\ call'.err = "ErrNoVariable"
          /\ application_variable' = application_variable
          /\ last_modified' = last_modified]_vars

\* C10: DeleteAllVariable(A) succeeds, empties A's collection, bumps A's
\* last_modified and leaves the variables of the other applications alone.
C10_DeleteAll ==
    [][call'.op = "DeleteAllVariable" =>
        /\ call'.err = "nil"
        /\ RowsOf(application_variable', call'.app) = {}
        /\ last_modified'[call'.app] > last_modified[call'.app]
        /\ \A a \in AppIDs \ {call'.app} :
              RowsOf(application_variable', a) = RowsOf(application_variable, a)]_vars

C10_Witness ==
    /\ call.op = "DeleteAllVariable" /\ call.err = "nil"
    /\ RowsOf(application_variable, call.app) = {}
    /\ application_variable # {}
    /\ last_modified[call.app] = clock

\* The four mutating operations.
WriteOps ==
    {"InsertVariable", "UpdateVariable", "DeleteVariable", "DeleteAllVariable"}

\* The call c is the sentinel no-op: an update of a secret kind whose value
\* is the redaction sentinel.
SentinelCall(c) ==
    /\ c.op = "UpdateVariable"
    /\ NeedPlaceholder(c.type)
    /\ c.value = PasswordPlaceholder

\* C11: whenever InsertVariable, UpdateVariable, DeleteVariable or
\* DeleteAllVariable returns success for application A and the call is not
\* the sentinel no-op, the call has bumped A's last_modified: it is later
\* than before and is the storage's current time.
C11_SuccessBumpsLastModified ==
    [][(/\ call'.op \in WriteOps
        /\ call'.err = "nil"
        /\ ~SentinelCall(call'))
       => /\ last_modified'[call'.app] > last_modified[call'.app]
          /\ last_modified'[call'.app] = clock']_vars

\* A successful update that is not the sentinel no-op, made while storage
\* failures are possible, after which the application's bump is visible.
C11_Witness ==
    /\ call.op = "UpdateVariable"
    /\ call.err = "nil"
    /\ ~SentinelCall(call)
    /\ call.fail = "none"
    /\ last_modified[call.app] = clock
    /\ clock > ScenarioClock

\* C12: the audit trail is append-only and only CreateAudit appends. Every
\* step keeps every stored audit row as it is (id, author, timestamp, data),
\* a step that adds a row is a CreateAudit call and the new row has a fresh
\* id, and GetAudit on the id of an existing audit returns after the step
\* what it returned before it.
C12_AuditAppendOnly ==
    [][/\ application_variable_audit \subseteq application_variable_audit'
       /\ application_variable_audit' # application_variable_audit
            => /\ call'.op = "CreateAudit"
               /\ \A n \in application_variable_audit'
                             \ application_variable_audit :
                    \A o \in application_variable_audit : n.id # o.id
       /\ DB' # DB =>
          \A a \in application_variable_audit :
            \A app \in Applications :
               GetAudit(DB', app.projectkey, app.name, a.id, "none")
                 = GetAudit(DB, app.projectkey, app.name, a.id, "none")]_vars

\* An audit taken before a later successful mutation of the same
\* application is still stored.
C12_Witness ==
    /\ call.op \in WriteOps
    /\ call.err = "nil"
    /\ ~SentinelCall(call)
    /\ \E a \in application_variable_audit :
          /\ a.application_id = call.app
          /\ a.versionned < last_modified[call.app]

\* The values ever handed to InsertVariable or UpdateVariable as plaintext.
WrittenValues == InsertValues \cup UpdateValues \cup {<<"prod">>}

\* C13: persisted representation. In every reachable state a non-secret row
\* holds its value in the clear column and an empty cipher column; a secret
\* row holds an empty or null clear column and a non-empty cipher column
\* (the encryption of its plaintext); so no secret row has a plaintext in
\* its clear column.
C13_PersistedRepresentation ==
    \A r \in application_variable :
        IF NeedPlaceholder(r.var_type)
        THEN /\ r.var_value \in EmptyClearReprs
             /\ r.var_value \notin WrittenValues
             /\ IsCipher(r.cipher_value)
             /\ PlaintextOf(r) \in WrittenValues
        ELSE /\ r.var_value \in WrittenValues
             /\ StringOfBytes(r.cipher_value) = EmptyString

\* Both kind changes have happened by update: some row inserted as a secret
\* is now a string and the last call turned a string row into a secret.
C13_Witness ==
    /\ call.op = "UpdateVariable"
    /\ call.err = "nil"
    /\ call.type = "password"
    /\ call.name = "ENV"
    /\ \E r \in application_variable :
          r.var_name = "ENV" /\ r.application_id = call.app
          /\ r.var_type = "password"
    /\ \E r \in application_variable :
          r.var_name = "DB_PASS" /\ r.var_type = "string"

\* The rows of application applicationID named name.
Named(av, applicationID, name) ==
    { r \in RowsOf(av, applicationID) : r.var_name = name }

\* C14: an UpdateVariable(A, v) call that is not the sentinel no-op, with no
\* storage failure. When A holds no variable named v.Name it returns the
\* 'no such variable' error and leaves all stored variables and every
\* last_modified unchanged. When A holds it, the call returns success, the
\* variable keeps its id and name and gets v's kind and value (clear and
\* cipher columns), every other variable is unchanged, A's last_modified is
\* bumped and no other application's is.
C14_UpdateVariable ==
    [][(call'.op = "UpdateVariable" /\ ~SentinelCall(call'))
       => IF Named(application_variable, call'.app, call'.name) = {}
          THEN /\ call'.err = "ErrNoVariable"
               /\ application_variable' = application_variable
               /\ last_modified' = last_modified
          ELSE /\ call'.err = "nil"
               /\ application_variable'
                    \ Named(application_variable', call'.app, call'.name)
                  = application_variable
                    \ Named(application_variable, call'.app, call'.name)
               /\ \E o \in Named(application_variable, call'.app, call'.name),
                     n \in Named(application_variable', call'.app, call'.name) :
                     /\ Named(application_variable', call'.app, call'.name) = {n}
                     /\ n.id = o.id
                     /\ n.var_type = call'.type
                     /\ PlaintextOf(n) = call'.value
                     /\ n = [o EXCEPT
                               !.var_type = call'.type,
                               !.var_value = EncryptS(call'.type, call'.value,
                                                      emptyClear).clear,
                               !.cipher_value = EncryptS(call'.type, call'.value,
                                                         emptyClear).cipher]
               /\ last_modified'[call'.app] > last_modified[call'.app]
               /\ \A a \in AppIDs \ {call'.app} :
                     last_modified'[a] = last_modified[a]]_vars

\* A successful update of a variable that both applications hold under the
\* same name: the other application's variable is there to be left alone.
C14_Witness ==
    /\ call.op = "UpdateVariable"
    /\ call.err = "nil"
    /\ ~SentinelCall(call)
    /\ \A a \in AppIDs : Named(application_variable, a, call.name) # {}
    /\ \E r \in Named(application_variable, call.app, call.name) :
          PlaintextOf(r) = call.value /\ r.var_type = call.type
    /\ \E a \in AppIDs \ {call.app} :
          \E r \in Named(application_variable, a, call.name) :
             PlaintextOf(r) # call.value

\* What the mutating call recorded in c does on database db when it meets
\* the storage failure fail.
RunCall(db, c, fail) ==
    LET variable == [Name |-> c.name, Type |-> c.type, Value |-> c.value]
    IN CASE c.op = "InsertVariable"
              -> InsertVariable(db, c.app, variable, emptyClear, fail)
         [] c.op = "UpdateVariable"
              -> UpdateVariable(db, c.app, variable, emptyClear, fail)
         [] c.op = "DeleteVariable"
              -> DeleteVariable(db, c.app, c.name, fail)
         [] c.op = "DeleteAllVariable"
              -> DeleteAllVariable(db, c.app, fail)

\* C15: the two-write mutations are not atomic. When a call of
\* InsertVariable, UpdateVariable, DeleteVariable or DeleteAllVariable gets
\* as far as its row change (the same call without failure would succeed,
\* and it is not the sentinel no-op) and the last_modified bump then fails,
\* the call returns that error, the stored variables are the ones the row
\* change leaves, and no last_modified has moved.
C15_BumpFailureKeepsRowChange ==
    [][(/\ call'.op \in WriteOps
        /\ call'.fail = "bump"
        /\ ~SentinelCall(call')
        /\ RunCall(DB, call', "none").err = "nil")
       => /\ call'.err = "StorageFailure"
          /\ application_variable' = RunCall(DB, call', "none").db.av
          /\ last_modified' = last_modified]_vars

\* The state the claim says is reachable: an insert whose bump failed left
\* its new variable stored while the application's last_modified is older
\* than the variable.
C15_Witness ==
    /\ call.op = "InsertVariable"
    /\ call.fail = "bump"
    /\ call.err = "StorageFailure"
    /\ \E r \in Named(application_variable, call.app, call.name) :
          r.id > last_modified[call.app]

\* The three read modes: redacted, encrypted-token, plaintext.
ReadModes == {{}, {"WithEncryptPassword"}, {"WithClearPassword"}}

\* The values a listing gives for the variable called name.
ListedValues(ret, name) ==
    { ret[i].Value : i \in { j \in DOMAIN ret : ret[j].Name = name } }

\* What the two list-all operations return for application app in mode args
\* on database db.
Listings(db, app, args) ==
    { GetAllVariable(db, app.projectkey, app.name, args, "none"),
      GetAllVariableByID(db, app.id, args, "none") }

\* C16: non-secret values do not depend on the read mode. In every state,
\* each list-all operation in each of the three modes succeeds and gives, for
\* every non-secret variable, the one value held in its clear column; and
\* right after a successful InsertVariable or UpdateVariable of a non-secret
\* kind that value is the value the call wrote.
C16_NonSecretModeIndependent ==
    /\ \A app \in Applications, args \in ReadModes :
          \A l \in Listings(DB, app, args) :
             /\ l.err = "nil"
             /\ \A r \in RowsOf(application_variable, app.id) :
                   ~NeedPlaceholder(r.var_type)
                      => ListedValues(l.ret, r.var_name) = {r.var_value}
    /\ (/\ call.op \in {"InsertVariable", "UpdateVariable"}
        /\ call.err = "nil"
        /\ ~NeedPlaceholder(call.type))
       => \A args \in ReadModes :
             \A l \in Listings(DB, CHOOSE app \in Applications :
                                      app.id = call.app, args) :
                ListedValues(l.ret, call.name) = {call.value}

\* A listing in encrypted-token mode returned a non-secret variable with the
\* value an earlier update wrote.
C16_Witness ==
    /\ call.op = "GetAllVariable"
    /\ call.args = {"WithEncryptPassword"}
    /\ call.err = "nil"
    /\ \E r \in CalledRows :
          /\ ~NeedPlaceholder(r.var_type)
          /\ r.var_value = <<"rotated">>
          /\ Returned(r, <<"rotated">>)

\* C17: DeleteVariable(A, name), called while A holds a variable of that
\* name and with no storage failure, returns success, removes exactly that
\* variable and leaves the variables of every other application unchanged,
\* same-named ones included.
C17_DeleteVariableScoped ==
    [][(/\ call'.op = "DeleteVariable"
        /\ Named(application_variable, call'.app, call'.name) # {})
       => /\ call'.err = "nil"
          /\ application_variable'
               = application_variable
                   \ Named(application_variable, call'.app, call'.name)]_vars

\* C20: UpdateVariable returns success only when a variable with the given
\* name exists in the given application, for every kind and every value,
\* the redaction sentinel included.
C20_UpdateSuccessNeedsVariable ==
    [][(call'.op = "UpdateVariable" /\ call'.err = "nil")
       => Named(application_variable, call'.app, call'.name) # {}]_vars

\* C20, amended: an UpdateVariable call addressed to a name absent from the
\* application returns success exactly when it is the sentinel no-op (secret
\* kind and value equal to the redaction sentinel), and then nothing is
\* written; every other update of an absent name, the sentinel given with a
\* non-secret kind included, returns the 'no such variable' error.
C20_UpdateAbsentName ==
    [][(/\ call'.op = "UpdateVariable"
        /\ Named(application_variable, call'.app, call'.name) = {})
       => /\ call'.err = "nil" <=> SentinelCall(call')
          /\ ~SentinelCall(call') => call'.err = "ErrNoVariable"
          /\ application_variable' = application_variable
          /\ last_modified' = last_modified]_vars

\* An update carrying the sentinel with a non-secret kind, addressed to a
\* name the application does not hold, was refused.
C20_Witness ==
    /\ call.op = "UpdateVariable"
    /\ call.value = PasswordPlaceholder
    /\ ~NeedPlaceholder(call.type)
    /\ Named(application_variable, call.app, call.name) = {}
    /\ call.err = "ErrNoVariable"

\* The (application, name) the concurrent InsertVariable calls address was
\* free when they started.
TargetFree ==
    Named(ScenarioDB(emptyClear).av, pc["insert1"].app, pc["insert1"].name) = {}

\* C18: two concurrent InsertVariable calls with the same (application,
\* name), the name being free when they start and storage not failing. In
\* every state of every interleaving no two stored variables share an
\* (application, name); a call that has returned success is the only one
\* that has, and the stored variable holds its kind and value; when both
\* have returned, one returned success and the other 'variable already
\* exists'.
C18_ConcurrentInsert ==
    /\ UniqueNames(application_variable)
    /\ TargetFree =>
          /\ \A p \in Inserters :
                (pc[p].at \in {"bump", "done"} /\ pc[p].err = "nil") =>
                   /\ \A q \in Inserters \ {p} :
                         ~(pc[q].at \in {"bump", "done"} /\ pc[q].err = "nil")
                   /\ \E r \in application_variable :
                         /\ Named(application_variable, pc[p].app,
                                  pc[p].name) = {r}
                         /\ r.var_type = pc[p].type
                         /\ PlaintextOf(r) = pc[p].value
          /\ (\A p \in Inserters : pc[p].at = "done") =>
                \E p \in Inserters :
                   /\ pc[p].err = "nil"
                   /\ \A q \in Inserters \ {p} :
                         pc[q].err = "ErrVariableExists"

\* Both calls have returned on a free name and the second caller won: the
\* first was refused while the winner had not yet bumped last_modified or
\* after it.
C18_Witness ==
    /\ TargetFree
    /\ \A p \in Inserters : pc[p].at = "done"
    /\ pc["insert2"].err = "nil"
    /\ pc["insert1"].err = "ErrVariableExists"
    /\ pc["insert1"].type # pc["insert2"].type

\* C19: the snapshot CreateAudit stores is the full variable collection of
\* the application as of the moment the audit row is inserted, ordered by
\* name (secrets as encrypted tokens), also when other callers insert
\* variables of that application concurrently.
C19_SnapshotAsOfInsertion ==
    [][\A n \in application_variable_audit' \ application_variable_audit :
          n.data =
            JSONMarshal(EncodeSecrets(
               GetAllVariable(DB, AppKey(n.application_id),
                              AppName(n.application_id),
                              {"WithEncryptPassword"}, "none").ret))]_vars

====
